---- MODULE Spec2Model ----
(***************************************************************************)
(* Model of red-interactions: the per-interaction response objects          *)
(* (InteractionResponse / InteractionCommand / InteractionButton), the      *)
(* HTTP request builder they call, and the raw-event dispatcher             *)
(* (InteractionState.parse_interaction_create).                             *)
(*                                                                         *)
(* The host runs the coroutines on one cooperative event loop, so a        *)
(* coroutine runs without interruption between two awaits that really      *)
(* suspend.  Each response method suspends exactly once, inside the        *)
(* transport request; it is therefore modelled as two atomic steps: the    *)
(* step that reads the flags and issues the request, and the step that     *)
(* resumes it with the transport's answer.                                 *)
(***************************************************************************)
EXTENDS Integers, Sequences, FiniteSets, TLC

\* ------------------------------------------------------------------ bounds
\* number of send/reply/defer/defer_update/update calls made on the Response
MaxCalls == 2

\* ------------------------------------------------------- program constants
\* InteractionCallbackType (models/interactions.py)
channel_message_with_source == 4
deferred_channel_message_with_source == 5
deferred_update_message == 6
update_message == 7
\* `flags = 64 if hidden else None`
EphemeralFlag == 64

\* An optional value: Python's None, or a value that is present
None == <<>>
Some(x) == <<x>>

\* ---------------------------------------------------------- HTTP endpoints
\* http.py: the URL templates of the four response endpoints
CallbackUrl == "/interactions/{interaction_id}/{token}/callback"
FollowupUrl == "/webhooks/{application_id}/{token}"
OriginalUrl == "/webhooks/{application_id}/{token}/messages/@original"
MessageUrl == "/webhooks/{application_id}/{token}/messages/{message_id}"

\* Python truthiness of an optional string argument (`if content:`)
Truthy(x) == x # None /\ x # Some("")

\* `flags = 64 if hidden else None`
FlagsOf(hidden) == IF hidden THEN Some(EphemeralFlag) ELSE None

\* `initial = not self.sent`
InitialAlwaysTrue(s) == TRUE
InitialOf(s) == ~s

\* The URL send_message picks from the caller's initial_response flag.
SendUrlAlwaysFollowup(initial_response) == FollowupUrl
SendUrlAlwaysCallback(initial_response) == CallbackUrl
SendUrl(initial_response) ==
    IF initial_response THEN CallbackUrl ELSE FollowupUrl

\* The `type` key of the JSON body send_message sends: the envelope
\* {type, data} carries it, the bare follow-up payload (send_data = data)
\* does not.
SendEnvelopeType(type, initial_response) ==
    IF initial_response THEN Some(type) ELSE None

\* InteractionsHTTPClient.send_message: the request it hands to the
\* transport.  The host bot always has allowed_mentions set, so `data` is
\* never empty and the envelope always has its "data" key; embeds, tts and
\* components only add keys to `data` and are left out.
send_message(type, initial_response, content, flags) ==
    [ method  |-> "POST",
      url     |-> SendUrl(initial_response),
      type    |-> SendEnvelopeType(type, initial_response),
      content |-> IF Truthy(content) THEN content ELSE None,
      flags   |-> IF flags # None THEN flags ELSE None ]

\* The URL edit_message builds (`"@original" if original else "{message_id}"`).
EditUrl(original) == IF original THEN OriginalUrl ELSE MessageUrl

\* InteractionsHTTPClient.edit_message: a PATCH with a bare payload.
edit_message(content, original) ==
    [ method  |-> "PATCH",
      url     |-> EditUrl(original),
      type    |-> None,
      content |-> IF Truthy(content) THEN content ELSE None,
      flags   |-> None ]

\* InteractionsHTTPClient.delete_message
delete_message ==
    [ method  |-> "DELETE",
      url     |-> MessageUrl,
      type    |-> None,
      content |-> None,
      flags   |-> None ]

\* ------------------------------------------------------------------- state
VARIABLES
    variant,    \* the class of the Response object
    sent,       \* InteractionResponse.sent
    deferred,   \* InteractionResponse.deferred
    completed,  \* InteractionResponse.completed
    calls,      \* the calls made on the Response, in the order they started
    requests,   \* the requests handed to the transport, in order
    parsing,    \* the raw event handed to the parser and what came of it
    dispatched, \* the names of the events handed to bot.dispatch, in order
    delivered,  \* raw events delivered so far
    logged,     \* exceptions the dispatcher caught and logged so far
    _initialized,  \* core._initialized
    _state,        \* core._state: the InteractionState it refers to, if any
    states,        \* the InteractionState instances constructed, in order
    parsers,       \* bot._connection.parsers["INTERACTION_CREATE"], if any
    config_application_id,  \* the persisted application_id
    config_commands,        \* the persisted command map
    slash_commands,  \* the SlashCommand objects created, in order
    inits,         \* the initialize calls, in the order they started
    teardowns,     \* the teardown calls, in order
    ops,           \* the register/edit/delete calls, in the order they started
    lookups,       \* the command lookups made, in order
    serialized     \* a SlashCommand, its to_dict() and what from_dict gave

respVars == <<variant, sent, deferred, completed, calls, requests>>
dispVars == <<parsing, dispatched, delivered, logged>>
modVars == <<_initialized, _state, states, parsers, config_application_id,
             config_commands, slash_commands, inits, teardowns>>
regVars == <<ops, lookups>>
serVars == <<serialized>>
vars == <<variant, sent, deferred, completed, calls, requests,
          parsing, dispatched, delivered, logged,
          _initialized, _state, states, parsers, config_application_id,
          config_commands, slash_commands, inits, teardowns, ops, lookups,
          serialized>>

Variants == {"InteractionCommand", "InteractionButton"}
Contents == {None, Some("hi")}
DeleteAfters == {None, Some(5)}
\* what the awaited transport request does: raise, return nothing (204),
\* or return the JSON of a message
TransportResults == {"error", "empty", "data"}

Flags == [sent |-> sent, deferred |-> deferred, completed |-> completed]
Fresh == [sent |-> FALSE, deferred |-> FALSE, completed |-> FALSE]

\* the calls that are suspended in their transport request
Awaiting == {i \in DOMAIN calls : calls[i].status = "awaiting"}

\* A call that has just run up to its await: it has read the flags and
\* handed its request to the transport.  Every call is made with
\* hidden=False (hidden only adds the "flags" key to `data`).
NewCall(op, content, delete_after, initial) ==
    [ op           |-> op,
      content      |-> content,
      delete_after |-> delete_after,
      initial      |-> initial,
      pre          |-> Flags,
      post         |-> Flags,
      during       |-> Awaiting,
      status       |-> "awaiting",
      transport    |-> "pending",
      result       |-> "pending",
      timer        |-> "none" ]

\* The request `req` is handed to the transport by call `by`, from the
\* call's own coroutine or (task) from the detached delayed-delete task.
Logged(req, by, task) == [by |-> by, task |-> task, req |-> req]

\* `await self.http....(...)` is not inside any try block: the call raises
\* exactly when the transport request raises.
AwaitSwallows(result) == FALSE
AwaitRaises(result) == result = "error"

\* send, lines 193-196
SendSentDropped(initial, s) == s
SendSent(initial, s) == IF initial THEN TRUE ELSE s
SendCompletedDropped(c) == c
SendCompletedToggled(c) == ~c
SendCompleted(c) == IF ~c THEN TRUE ELSE c

\* defer / defer_update: `if not self.sent: self.sent = True; self.deferred = True`
DeferSentDropped(s) == s
DeferSent(s) == IF ~s THEN TRUE ELSE s
DeferDeferredDropped(d) == d
DeferDeferred(d) == TRUE

\* update: `self.sent = True` in the initial branch, then
\* `if not self.completed: self.completed = True`
UpdateSent(initial, s) == IF initial THEN TRUE ELSE s
UpdateCompleted(c) == IF ~c THEN TRUE ELSE c

\* update picks its request from `initial`: the update_message ack, or an
\* edit of the original message.
UpdateRequestAlwaysAck(initial, content) ==
    send_message(update_message, TRUE, content, FlagsOf(FALSE))
UpdateRequest(initial, content) ==
    IF initial
    THEN send_message(update_message, initial, content, FlagsOf(FALSE))
    ELSE edit_message(content, TRUE)

Started(call, req) ==
    /\ Len(calls) < MaxCalls
    /\ calls' = Append(calls, call)
    /\ requests' = Append(requests, Logged(req, Len(calls) + 1, FALSE))
    /\ UNCHANGED <<variant, sent, deferred, completed>>
    /\ UNCHANGED <<dispVars, modVars, regVars, serVars>>

\* The assignments to the flags come after the await: an exception out of
\* the await unwinds the coroutine past them.
UnwoundSet(flag) == TRUE
Unwound(flag) == flag

\* The call raises out of its await: nothing after the await runs.
Raised(i) ==
    /\ calls' = [calls EXCEPT ![i].status = "raised",
                              ![i].transport = "error",
                              ![i].result = "HTTPException",
                              ![i].post = Flags]
    /\ sent' = Unwound(sent)
    /\ UNCHANGED <<variant, deferred, completed, requests>>
    /\ UNCHANGED <<dispVars, modVars, regVars, serVars>>

\* ------------------------------------------------- InteractionResponse.send
\* up to the await of http.send_message
send(content, delete_after) ==
    /\ variant \in Variants
    /\ LET initial == InitialOf(sent) IN
       Started(NewCall("send", content, delete_after, initial),
               send_message(channel_message_with_source, initial, content,
                            FlagsOf(FALSE)))

\* from the await on: the flags, the InteractionMessage (its construction
\* may fail, which is logged) and the scheduling of the delayed delete
send_resume(i, result, message_ok) ==
    /\ i \in Awaiting
    /\ calls[i].op = "send"
    /\ IF AwaitRaises(result)
       THEN Raised(i)
       ELSE LET s == SendSent(calls[i].initial, sent)
                c == SendCompleted(completed)
                message == result = "data" /\ message_ok
            IN /\ sent' = s
               /\ completed' = c
               /\ calls' = [calls EXCEPT
                     ![i].status = "returned",
                     ![i].transport = result,
                     ![i].result = IF message THEN "message" ELSE "None",
                     ![i].timer = IF message /\ calls[i].delete_after # None
                                  THEN "sleeping" ELSE "none",
                     ![i].post = [sent |-> s, deferred |-> deferred,
                                  completed |-> c]]
               /\ UNCHANGED <<variant, deferred, requests>>
               /\ UNCHANGED <<dispVars, modVars, regVars, serVars>>

\* `asyncio.create_task(delete())`: the delete runs detached, and its
\* `except discord.HTTPException: pass` drops a failed request, so the call
\* that scheduled it keeps the outcome it had
TaskOutcomeJoined(status, result) ==
    IF result = "error" THEN "raised" ELSE status
TaskOutcome(status, result) == status

\* InteractionMessage.delete(delay=...): the detached task, after its sleep
delete_task(i, result) ==
    /\ i \in DOMAIN calls
    /\ calls[i].timer = "sleeping"
    /\ requests' = Append(requests, Logged(delete_message, i, TRUE))
    /\ calls' = [calls EXCEPT
                   ![i].status = TaskOutcome(calls[i].status, result),
                   ![i].timer =
                       IF result = "error" THEN "swallowed" ELSE "deleted"]
    /\ UNCHANGED <<variant, sent, deferred, completed>>
    /\ UNCHANGED <<dispVars, modVars, regVars, serVars>>

\* ------------------------------------------------ InteractionResponse.defer
defer ==
    /\ variant \in Variants
    /\ LET initial == InitialOf(sent) IN
       Started(NewCall("defer", None, None, initial),
               send_message(deferred_channel_message_with_source, initial,
                            None, FlagsOf(FALSE)))

\* the tail shared by defer and defer_update
DeferResumed(i, result) ==
    IF AwaitRaises(result)
    THEN Raised(i)
    ELSE LET s == DeferSent(sent)
             d == DeferDeferred(deferred)
         IN /\ sent' = s
            /\ deferred' = d
            /\ calls' = [calls EXCEPT
                  ![i].status = "returned",
                  ![i].transport = result,
                  ![i].result = IF result = "data" THEN "data" ELSE "None",
                  ![i].post = [sent |-> s, deferred |-> d,
                               completed |-> completed]]
            /\ UNCHANGED <<variant, completed, requests>>
            /\ UNCHANGED <<dispVars, modVars, regVars, serVars>>

defer_resume(i, result) ==
    /\ i \in Awaiting
    /\ calls[i].op = "defer"
    /\ DeferResumed(i, result)

\* ------------------------------------------ InteractionButton.defer_update
defer_update ==
    /\ variant = "InteractionButton"
    /\ LET initial == InitialOf(sent) IN
       Started(NewCall("defer_update", None, None, initial),
               send_message(deferred_update_message, initial, None,
                            FlagsOf(FALSE)))

defer_update_resume(i, result) ==
    /\ i \in Awaiting
    /\ calls[i].op = "defer_update"
    /\ DeferResumed(i, result)

\* ------------------------------------------------ InteractionButton.update
update(content) ==
    /\ variant = "InteractionButton"
    /\ LET initial == InitialOf(sent) IN
       Started(NewCall("update", content, None, initial),
               UpdateRequest(initial, content))

update_resume(i, result) ==
    /\ i \in Awaiting
    /\ calls[i].op = "update"
    /\ IF AwaitRaises(result)
       THEN Raised(i)
       ELSE LET s == UpdateSent(calls[i].initial, sent)
                c == UpdateCompleted(completed)
            IN /\ sent' = s
               /\ completed' = c
               /\ calls' = [calls EXCEPT
                     ![i].status = "returned",
                     ![i].transport = result,
                     ![i].result = "None",
                     ![i].post = [sent |-> s, deferred |-> deferred,
                                  completed |-> c]]
               /\ UNCHANGED <<variant, deferred, requests>>
               /\ UNCHANGED <<dispVars, modVars, regVars, serVars>>

\* InteractionResponse.__init__ (lines 127-129): a fresh Response of either
\* class, no call made yet
ResponseInit ==
    /\ variant \in Variants
    /\ sent = FALSE
    /\ deferred = FALSE
    /\ completed = FALSE
    /\ calls = <<>>
    /\ requests = <<>>

ResponseNext ==
    \/ \E c \in Contents, d \in DeleteAfters : send(c, d)
    \/ \E i \in 1..MaxCalls, r \in TransportResults, ok \in BOOLEAN :
           send_resume(i, r, ok)
    \/ \E i \in 1..MaxCalls, r \in TransportResults : delete_task(i, r)
    \/ defer
    \/ \E i \in 1..MaxCalls, r \in TransportResults : defer_resume(i, r)
    \/ defer_update
    \/ \E i \in 1..MaxCalls, r \in TransportResults :
           defer_update_resume(i, r)
    \/ \E c \in Contents : update(c)
    \/ \E i \in 1..MaxCalls, r \in TransportResults : update_resume(i, r)

\* ============================================================ the dispatcher
\* ------------------------------------------------------------------ bounds
\* raw INTERACTION_CREATE events the host delivers
MaxEvents == 2
\* keys removed from an otherwise complete raw payload
MaxMissing == 2
\* entries of a command payload's data.options
MaxOptions == 1
\* entries of data.options of a complete command payload whose options
\* name users, channels and roles
MaxSnowflakes == 2

\* ------------------------------------------------------- program constants
\* the keys of `handlers` in parse_interaction_create
SlashInteractionType == 2
ButtonInteractionType == 3
\* SlashOptionType members (STRING_TYPE is its STRING)
SUB_COMMAND == 1
STRING_TYPE == 3
USER == 6
CHANNEL == 7
ROLE == 8

\* ------------------------------------------------------------- raw payloads
\* A raw payload is the set of keys it has (nested ones written a.b), the
\* value "type" has when the payload has that key, the value of "guild_id"
\* (None in a direct message; the guild is one the bot has cached) and the
\* entries of data.options.
BaseKeys == {"type", "id", "version", "token", "data"}
AuthorKey(guild_id) == IF guild_id # None THEN "member" ELSE "user"
CommandKeys(guild_id) ==
    BaseKeys \cup {AuthorKey(guild_id), "data.name", "data.id"}
ButtonKeys(guild_id) ==
    BaseKeys \cup {AuthorKey(guild_id), "data.custom_id",
                   "data.component_type", "message"}

\* One entry of data.options: its "type" (9 is no SlashOptionType), whether
\* it has "name" and "value", and whether the id in "value" is in the
\* payload's resolved bundle.
Option(type, named, valued, resolved) ==
    [type |-> type, named |-> named, valued |-> valued, resolved |-> resolved]
OptionSet ==
    { Option(STRING_TYPE, TRUE, TRUE, FALSE),
      Option(STRING_TYPE, FALSE, TRUE, FALSE),
      Option(USER, TRUE, TRUE, TRUE),
      Option(USER, TRUE, TRUE, FALSE),
      Option(SUB_COMMAND, TRUE, FALSE, FALSE),
      Option(9, TRUE, TRUE, FALSE) }
OptionLists ==
    UNION { [1..n -> OptionSet] : n \in 0..MaxOptions }

TypeValues == {1, SlashInteractionType, ButtonInteractionType}
GuildIds == {None, Some(1)}
Dropped(keys) == {m \in SUBSET keys : Cardinality(m) <= MaxMissing}

\* the guilds bot.get_guild finds
CachedGuilds == {1}
\* guild_id of a command payload: a direct message, a cached guild, and a
\* guild the bot is not a member of
CommandGuildIds == {None, Some(1), Some(2)}
\* options whose "value" is the id of a user, a channel or a role, and a
\* plain string option to stand beside them
SnowflakeOptions ==
    { Option(t, TRUE, TRUE, r) : t \in {USER, CHANNEL, ROLE}, r \in BOOLEAN }
    \cup { Option(STRING_TYPE, TRUE, TRUE, FALSE) }
SnowflakeOptionLists ==
    UNION { [1..n -> SnowflakeOptions] : n \in 1..MaxSnowflakes }
\* complete command payloads with such options
SnowflakePayloads ==
    { [keys |-> CommandKeys(g), type |-> SlashInteractionType, guild_id |-> g,
       options |-> os] :
      g \in CommandGuildIds, os \in SnowflakeOptionLists }

Payloads ==
    SnowflakePayloads \cup
    { [keys |-> CommandKeys(g) \ m, type |-> t, guild_id |-> g,
       options |-> os] :
      g \in GuildIds, t \in TypeValues, os \in OptionLists,
      m \in Dropped(CommandKeys(None) \cup CommandKeys(Some(1))) }
    \cup
    { [keys |-> ButtonKeys(g) \ m, type |-> t, guild_id |-> g,
       options |-> <<>>] :
      g \in GuildIds, t \in TypeValues,
      m \in Dropped(ButtonKeys(None) \cup ButtonKeys(Some(1))) }

\* --------------------------------------------------------- the typed objects
\* InteractionResponse.__init__: the exception it raises, or "None"
InteractionResponseInit(p) ==
    IF ~({"id", "version", "token"} \subseteq p.keys) THEN "KeyError"
    ELSE IF p.guild_id # None /\ "member" \notin p.keys THEN "KeyError"
    ELSE IF p.guild_id = None /\ "user" \notin p.keys THEN "KeyError"
    ELSE IF "data" \notin p.keys THEN "KeyError"
    ELSE "None"

\* ResponseOption.from_dict: SlashOptionType(data.get("type", 3)), then
\* data["name"] and data["value"]
ResponseOptionFromDict(o) ==
    IF o.type \notin SUB_COMMAND..ROLE THEN "ValueError"
    ELSE IF ~o.named \/ ~o.valued THEN "KeyError"
    ELSE "None"

\* InteractionResponse.guild: bot.get_guild(self.guild_id), None when the
\* bot has no such guild in its cache
guild(guild_id) ==
    IF guild_id # None /\ guild_id[1] \in CachedGuilds THEN guild_id ELSE None

\* `resolved[...][data["value"]]`, then `self.guild.get_...` in a guild: the
\* exception a handler raises before it has an object, or "None"
HandlerRaises(o, guild_id) ==
    IF ~o.resolved THEN "KeyError"
    ELSE IF guild_id # None /\ guild(guild_id) = None THEN "AttributeError"
    ELSE "None"

\* _handle_option_channel / _handle_option_user: the value the option has
\* when the handler returns (the guild's or the connection's cached object,
\* or one built from the resolved data)
_handle_option_channel(o, guild_id) == "resolved"
_handle_option_user(o, guild_id) == "resolved"
\* _handle_option_role: set_value is inside `if self.guild_id:`
_handle_option_role(o, guild_id) ==
    IF guild_id # None THEN "resolved" ELSE "raw"

\* The `try: handler = getattr(...)` / `try: option = handler(...)` part of
\* _parse_options for one option: a type without a handler and a handler
\* that raises both leave the option with its raw value.
HandlersMissing(o, guild_id) == "raw"
HandledValue(o, guild_id) ==
    IF o.type \notin {USER, CHANNEL, ROLE} THEN "raw"
    ELSE IF HandlerRaises(o, guild_id) # "None" THEN "raw"
    ELSE IF o.type = CHANNEL THEN _handle_option_channel(o, guild_id)
    ELSE IF o.type = USER THEN _handle_option_user(o, guild_id)
    ELSE _handle_option_role(o, guild_id)

\* The handler call of _parse_options is inside `try: ... except Exception`,
\* which logs.
HandlerUncaught(raised) == raised
HandlerCaught(raised) == "None"

\* One turn of the loop of _parse_options: the exception that leaves it, or
\* "None".  ResponseOption.from_dict is called before the try blocks.
ParseOptionRaises(o, guild_id) ==
    IF ResponseOptionFromDict(o) # "None" THEN ResponseOptionFromDict(o)
    ELSE IF o.type \notin {USER, CHANNEL, ROLE} THEN "None"
    ELSE HandlerCaught(HandlerRaises(o, guild_id))

\* InteractionCommand._parse_options: the exception that ends the loop, or
\* "None"
RECURSIVE ParseOptionsRaises(_, _)
ParseOptionsRaises(os, guild_id) ==
    IF os = <<>> THEN "None"
    ELSE IF ParseOptionRaises(Head(os), guild_id) # "None"
         THEN ParseOptionRaises(Head(os), guild_id)
         ELSE ParseOptionsRaises(Tail(os), guild_id)

\* InteractionCommand.options after _parse_options has run to its end
ParsedOptions(p) ==
    [k \in DOMAIN p.options |->
        [type |-> p.options[k].type,
         value |-> HandledValue(p.options[k], p.guild_id)]]

\* InteractionCommand.__init__: the exception it raises, or "None"
InteractionCommandInit(p) ==
    IF InteractionResponseInit(p) # "None" THEN InteractionResponseInit(p)
    ELSE IF ~({"data.name", "data.id"} \subseteq p.keys) THEN "KeyError"
    ELSE ParseOptionsRaises(p.options, p.guild_id)

\* InteractionButton.__init__: the exception it raises, or "None" (a
\* failure to build the discord.Message is logged and leaves message None)
InteractionButtonInit(p) ==
    IF InteractionResponseInit(p) # "None" THEN InteractionResponseInit(p)
    ELSE IF ~({"data.custom_id", "data.component_type"} \subseteq p.keys)
         THEN "KeyError"
    ELSE IF "message" \notin p.keys THEN "KeyError"
    ELSE "None"

\* the event a handler hands to bot.dispatch
SlashEvent(p) ==
    [name |-> "red_slash_interaction", class |-> "InteractionCommand",
     options |-> ParsedOptions(p), message |-> "None"]
ButtonEvent(p, message_ok) ==
    [name |-> "red_button_interaction", class |-> "InteractionButton",
     options |-> <<>>,
     message |-> IF message_ok THEN "Message" ELSE "None"]

\* handle_slash_interaction / handle_button_interaction: what the handler
\* raises and the events it dispatched
handle_slash_interaction(p) ==
    IF InteractionCommandInit(p) # "None"
    THEN [raised |-> InteractionCommandInit(p), events |-> <<>>]
    ELSE [raised |-> "None", events |-> <<SlashEvent(p)>>]

handle_button_interaction(p, message_ok) ==
    IF InteractionButtonInit(p) # "None"
    THEN [raised |-> InteractionButtonInit(p), events |-> <<>>]
    ELSE [raised |-> "None", events |-> <<ButtonEvent(p, message_ok)>>]

\* `handlers.get(data["type"], self.handle_slash_interaction)`
HandlerSlashOnly(type) == "handle_slash_interaction"
HandlerFor(type) ==
    IF type = ButtonInteractionType THEN "handle_button_interaction"
    ELSE "handle_slash_interaction"

Handled(p, message_ok) ==
    IF HandlerFor(p.type) = "handle_button_interaction"
    THEN handle_button_interaction(p, message_ok)
    ELSE handle_slash_interaction(p)

\* The handler runs inside `try: ... except Exception`, which logs.
Uncaught(raised) == raised
Caught(raised) == "None"

\* parse_interaction_create(data), as a result: what it raises to the host
\* ("None" when it returns), the exception it caught and logged ("None" when
\* there was none) and the events it dispatched.  data["type"] is read
\* before the try block.
ParseResult(p, message_ok) ==
    IF "type" \notin p.keys
    THEN [raised |-> "KeyError", caught |-> "None", events |-> <<>>]
    ELSE [raised |-> Caught(Handled(p, message_ok).raised),
          caught |-> Handled(p, message_ok).raised,
          events |-> Handled(p, message_ok).events]

\* --------------------------------------------------------------- actions
Idle == [state |-> "idle"]

\* The registered parser is called with a raw payload drawn from P and runs
\* to its end without suspending.  The record kept of the call holds what
\* the parser was given and did, and what it found when it was called: the
\* events dispatched and the exceptions logged before, and the command cache
\* of the InteractionState the parser belongs to.
ParserCalled(P) ==
    \E p \in P, message_ok \in BOOLEAN :
        LET r == ParseResult(p, message_ok) IN
        /\ parsing' = [state |-> "parsed", data |-> p,
                       raised |-> r.raised, caught |-> r.caught,
                       events |-> r.events,
                       before |-> dispatched, logs |-> logged,
                       cache |-> states[parsers[1]].command_cache]
        /\ dispatched' =
               dispatched \o [k \in DOMAIN r.events |-> r.events[k].name]
        /\ logged' = IF r.caught # "None" THEN logged + 1 ELSE logged

\* The host's gateway reader hands one raw payload to the registered parser.
parse_interaction_create ==
    /\ parsing = Idle
    /\ delivered < MaxEvents
    /\ parsers # None
    /\ ParserCalled(Payloads)
    /\ delivered' = delivered + 1
    /\ UNCHANGED <<respVars, modVars, regVars, serVars>>

\* The host's gateway reader goes back to waiting for the next raw event.
gateway_wait ==
    /\ parsing # Idle
    /\ parsing' = Idle
    /\ UNCHANGED <<dispatched, delivered, logged>>
    /\ UNCHANGED <<respVars, modVars, regVars, serVars>>

\* nothing delivered yet
DispatchInit ==
    /\ parsing = Idle
    /\ dispatched = <<>>
    /\ delivered = 0
    /\ logged = 0

DispatchNext ==
    \/ parse_interaction_create
    \/ gateway_wait

\* ================================================================ the module
\* core.py keeps the process-wide state (_initialized, _state and the
\* persisted config); _state.py is the InteractionState that core.initialize
\* constructs; models/slash_commands.py holds the SlashCommand objects that
\* the command cache and the persisted command map are made of.
\*
\* An await of a call into the host (the config store, the platform's HTTP
\* API) is one suspension point: the coroutine stops at the await and the
\* call's effect and result are those of the step that resumes it.  An
\* `async with config.commands()` block is one such step: the store hands
\* out the map, the block changes it and the store takes it back under the
\* store's own lock.  The store keeps the keys it is given.
\* ------------------------------------------------------------------ bounds
\* initialize calls made in the process
MaxInits == 2
\* teardown calls made in the process
MaxTeardowns == 1
\* raw events the host receives while the module is set up and torn down
MaxDeliveries == 1

\* ------------------------------------------------------------ program values
\* the bot's application id: what bot.application_info() resolves to, and
\* what a caller passes to initialize(application_id=...)
BotApplicationId == "bot application"
\* the ids the platform gives to commands
CommandIds == {1, 2}
\* the keys of the command cache and of the persisted command map: a
\* command's id, which is None until the platform has given one
Keys == {None} \cup {Some(i) : i \in CommandIds}
KeyOrder == <<None, Some(1), Some(2)>>

\* a dict keyed by command id: None where the key is absent
EmptyMap == [k \in Keys |-> None]
Has(m, k) == m[k] # None
Put(m, k, v) == [m EXCEPT ![k] = Some(v)]
DelNothing(m, k) == m
Del(m, k) == [m EXCEPT ![k] = None]
KeysOf(m) == {k \in Keys : Has(m, k)}

\* ------------------------------------------------------------- SlashOption
\* SlashOptionChoice.to_dict / from_dict
SlashOptionChoiceToDict(c) == [name |-> c.name, value |-> c.value]
SlashOptionChoiceSwapped(d) == [name |-> d.value, value |-> d.name]
SlashOptionChoiceFromDict(d) == [name |-> d.name, value |-> d.value]

\* SlashOption.to_dict: "choices" and "options" are only written when the
\* option has some
RECURSIVE SlashOptionToDict(_)
SlashOptionToDict(o) ==
    [ type        |-> o.type,
      name        |-> o.name,
      description |-> o.description,
      required    |-> Some(o.required),
      choices     |-> IF o.choices # <<>>
                      THEN Some([k \in DOMAIN o.choices |->
                                    SlashOptionChoiceToDict(o.choices[k])])
                      ELSE None,
      options     |-> IF o.options # <<>>
                      THEN Some([k \in DOMAIN o.options |->
                                    SlashOptionToDict(o.options[k])])
                      ELSE None ]

\* SlashOption.from_dict: data.get("choices", []), data.get("options", []),
\* data.get("required", False)
RECURSIVE SlashOptionFromDict(_)
SlashOptionFromDict(d) ==
    [ type        |-> d.type,
      name        |-> d.name,
      description |-> d.description,
      required    |-> IF d.required = None THEN FALSE ELSE d.required[1],
      choices     |-> IF d.choices = None THEN <<>>
                      ELSE [k \in DOMAIN d.choices[1] |->
                               SlashOptionChoiceFromDict(d.choices[1][k])],
      options     |-> IF d.options = None THEN <<>>
                      ELSE [k \in DOMAIN d.options[1] |->
                               SlashOptionFromDict(d.options[1][k])] ]

OptionsToDict(options) ==
    [k \in DOMAIN options |-> SlashOptionToDict(options[k])]
OptionsFromDict(data) ==
    [k \in DOMAIN data |-> SlashOptionFromDict(data[k])]

\* ------------------------------------------------------------ SlashCommand
\* SlashCommand.__init__: `state` is the InteractionState it belongs to
SlashCommand(state, id, application_id, name, description, guild_id, options) ==
    [ state          |-> state,
      id             |-> id,
      application_id |-> application_id,
      name           |-> name,
      description    |-> description,
      guild_id       |-> guild_id,
      options        |-> options ]

\* SlashCommand.to_request
to_request(c) ==
    [ name        |-> c.name,
      description |-> c.description,
      options     |-> OptionsToDict(c.options) ]

\* SlashCommand.to_dict
to_dict(c) ==
    [ id             |-> c.id,
      application_id |-> c.application_id,
      name           |-> c.name,
      description    |-> c.description,
      options        |-> OptionsToDict(c.options),
      guild_id       |-> c.guild_id ]

\* SlashCommand.from_dict
from_dict(state, data) ==
    SlashCommand(state, data.id, data.application_id, data.name,
                 data.description, data.guild_id,
                 OptionsFromDict(data.options))

\* ------------------------------------------------------- InteractionState
\* InteractionState.__init__ (without the parser it installs)
InteractionState(application_id) ==
    [application_id |-> application_id, command_cache |-> EmptyMap]

\* SlashCommand.add_to_cache, for the object at index c of the heap
add_to_cache(sts, heap, c) ==
    [sts EXCEPT ![heap[c].state].command_cache =
        Put(sts[heap[c].state].command_cache, heap[c].id, c)]

\* SlashCommand.remove_from_cache: a missing key is ignored
remove_from_cache(sts, heap, c) ==
    [sts EXCEPT ![heap[c].state].command_cache =
        Del(sts[heap[c].state].command_cache, heap[c].id)]

\* One turn of the loop of cache_commands: a SlashCommand is built from the
\* record and put into the cache under its own id.
CacheSkipsAdd(sts, heap, c) == sts
CacheAdd(sts, heap, c) == add_to_cache(sts, heap, c)

\* InteractionState.cache_commands of instance k, once the store has handed
\* out the map: the loop over commands.values(), for the keys left in `order`
RECURSIVE CacheCommands(_, _, _, _, _)
CacheCommands(k, sts, heap, map, order) ==
    IF order = <<>> THEN [states |-> sts, slash_commands |-> heap]
    ELSE IF ~Has(map, Head(order))
         THEN CacheCommands(k, sts, heap, map, Tail(order))
         ELSE LET built == Append(heap, from_dict(k, map[Head(order)][1]))
              IN  CacheCommands(k, CacheAdd(sts, built, Len(built)), built,
                                map, Tail(order))

\* InteractionState.get_command: dict.get, so None when the id is not cached
get_command(k, command_id) == states[k].command_cache[command_id]

\* ------------------------------------------------------- persisted records
\* command names
Names == {"ping", "pong"}
\* a required string option without choices or nested options
TextOption ==
    [ type |-> STRING_TYPE, name |-> "text", description |-> "some text",
      required |-> TRUE, choices |-> <<>>, options |-> <<>> ]
\* the persisted record of a registered command: what save_config wrote
Record(id, name, guild_id, options) ==
    to_dict(SlashCommand(1, Some(id), Some(BotApplicationId), name,
                         "description", guild_id, options))
\* persisted command maps a process can start with: every record sits under
\* the id it carries
PersistedMaps ==
    { EmptyMap,
      Put(Put(EmptyMap, Some(1), Record(1, "ping", None, <<>>)),
          Some(2), Record(2, "pong", Some(1), <<TextOption>>)) }

\* ------------------------------------------------------------ core.initialize
InFlight(call) ==
    call.pc \in {"config.application_id", "bot.application_info",
                 "set_application_id", "cache_commands"}
InitsInFlight == {i \in DOMAIN inits : InFlight(inits[i])}

\* what is_initialized(), state() and the parser table show
Snapshot ==
    [is_initialized |-> _initialized, state |-> _state, parsers |-> parsers]

\* `_state = InteractionState(bot, application_id, config)`: the instance is
\* constructed, installs its parser and becomes state()
Constructed(application_id) ==
    /\ states' = Append(states, InteractionState(application_id))
    /\ _state' = Some(Len(states) + 1)
    /\ parsers' = Some(Len(states) + 1)

\* `if _initialized: raise RuntimeError(...)`
InitializedIgnored(flag) == FALSE
InitializedCheck(flag) == flag

\* the record kept of an initialize call: where it is, what it raised, the
\* instance it constructed, whether every earlier call was still in flight
\* when it started, and what the module showed then
InitCall(pc, raised, instance) ==
    [pc |-> pc, raised |-> raised, instance |-> instance,
     overlapping |-> InitsInFlight = DOMAIN inits, pre |-> Snapshot]

\* initialize(bot, application_id=arg), up to its first await
initialize(arg) ==
    /\ parsing = Idle
    /\ Len(inits) < MaxInits
    /\ IF InitializedCheck(_initialized)
       THEN /\ inits' = Append(inits,
                            InitCall("raised", "RuntimeError", None))
            /\ UNCHANGED <<states, _state, parsers>>
       ELSE IF arg # None
       THEN /\ Constructed(arg[1])
            /\ inits' = Append(inits,
                            InitCall("cache_commands", "None",
                                     Some(Len(states) + 1)))
       ELSE /\ inits' = Append(inits,
                            InitCall("config.application_id", "None", None))
            /\ UNCHANGED <<states, _state, parsers>>
    /\ UNCHANGED <<_initialized, config_application_id, config_commands,
                   slash_commands, teardowns>>
    /\ UNCHANGED <<respVars, dispVars, regVars, serVars>>

\* get_application_id, resumed from `await config.application_id()`: a
\* persisted id is returned and the instance constructed with it; without
\* one the host is asked for its identity
initialize_application_id(i) ==
    /\ parsing = Idle
    /\ i \in DOMAIN inits
    /\ inits[i].pc = "config.application_id"
    /\ IF config_application_id # None
       THEN /\ Constructed(config_application_id[1])
            /\ inits' = [inits EXCEPT ![i].pc = "cache_commands",
                                      ![i].instance = Some(Len(states) + 1)]
       ELSE /\ inits' = [inits EXCEPT ![i].pc = "bot.application_info"]
            /\ UNCHANGED <<states, _state, parsers>>
    /\ UNCHANGED <<_initialized, config_application_id, config_commands,
                   slash_commands, teardowns>>
    /\ UNCHANGED <<respVars, dispVars, regVars, serVars>>

\* get_application_id, resumed from `await bot.application_info()`: the
\* request raised, or its answer is about to be persisted
initialize_application_info(i, result) ==
    /\ parsing = Idle
    /\ i \in DOMAIN inits
    /\ inits[i].pc = "bot.application_info"
    /\ IF result = "error"
       THEN inits' = [inits EXCEPT ![i].pc = "raised",
                                   ![i].raised = "HTTPException"]
       ELSE inits' = [inits EXCEPT ![i].pc = "set_application_id"]
    /\ UNCHANGED <<_initialized, _state, states, parsers,
                   config_application_id, config_commands, slash_commands,
                   teardowns>>
    /\ UNCHANGED <<respVars, dispVars, regVars, serVars>>

\* get_application_id, resumed from `await set_application_id(...)`: the id
\* is persisted and returned, and the instance constructed with it
initialize_set_application_id(i) ==
    /\ parsing = Idle
    /\ i \in DOMAIN inits
    /\ inits[i].pc = "set_application_id"
    /\ config_application_id' = Some(BotApplicationId)
    /\ Constructed(BotApplicationId)
    /\ inits' = [inits EXCEPT ![i].pc = "cache_commands",
                              ![i].instance = Some(Len(states) + 1)]
    /\ UNCHANGED <<_initialized, config_commands, slash_commands, teardowns>>
    /\ UNCHANGED <<respVars, dispVars, regVars, serVars>>

\* initialize, resumed from `await _state.cache_commands()`: the store's
\* read raised, or the cache is filled from the map it handed out,
\* _initialized is set and the instance returned
initialize_cache_commands(i, result) ==
    /\ parsing = Idle
    /\ i \in DOMAIN inits
    /\ inits[i].pc = "cache_commands"
    /\ IF result = "error"
       THEN /\ inits' = [inits EXCEPT ![i].pc = "raised",
                                      ![i].raised = "ConfigError"]
            /\ UNCHANGED <<_initialized, states, slash_commands>>
       ELSE LET cached == CacheCommands(inits[i].instance[1], states,
                                        slash_commands, config_commands,
                                        KeyOrder)
            IN  /\ states' = cached.states
                /\ slash_commands' = cached.slash_commands
                /\ _initialized' = TRUE
                /\ inits' = [inits EXCEPT ![i].pc = "returned"]
    /\ UNCHANGED <<_state, parsers, config_application_id, config_commands,
                   teardowns>>
    /\ UNCHANGED <<respVars, dispVars, regVars, serVars>>

\* -------------------------------------------------------------- core.teardown
\* `await _state.teardown()`, which runs `del parsers["INTERACTION_CREATE"]`
\* without suspending: the exception it raises, or "None"
TeardownRaises ==
    IF _state = None THEN "AttributeError"
    ELSE IF parsers = None THEN "KeyError"
    ELSE "None"

\* core.teardown declares no global and assigns nothing: _initialized
\* is what it was
TornDownReset(flag) == FALSE
TornDown(flag) == flag

teardown ==
    /\ parsing = Idle
    /\ Len(teardowns) < MaxTeardowns
    /\ parsers' = None
    /\ _initialized' = TornDown(_initialized)
    /\ teardowns' = Append(teardowns,
           [raised |-> TeardownRaises, is_initialized |-> _initialized,
            events |-> Len(dispatched)])
    /\ UNCHANGED <<_state, states, config_application_id,
                   config_commands, slash_commands, inits>>
    /\ UNCHANGED <<respVars, dispVars, regVars, serVars>>

\* ------------------------------------------------------------ the event table
\* a complete raw event: a command used in a direct message
CompletePayloads ==
    { [keys |-> CommandKeys(None), type |-> SlashInteractionType,
       guild_id |-> None, options |-> <<>>] }

\* The host receives a raw INTERACTION_CREATE event and looks its parser up
\* in the table: the registered parser is called with the payload, and
\* without an entry the event is dropped.
gateway_event ==
    /\ parsing = Idle
    /\ delivered < MaxDeliveries
    /\ IF parsers # None
       THEN ParserCalled(CompletePayloads)
       ELSE /\ parsing' = [state |-> "dropped", before |-> dispatched]
            /\ UNCHANGED <<dispatched, logged>>
    /\ delivered' = delivered + 1
    /\ UNCHANGED <<respVars, modVars, regVars, serVars>>

\* ------------------------------------------------------------------ the run
\* the module as imported: nothing initialized, no application id persisted
\* yet (callers have passed it so far), the command map as persisted by
\* earlier processes
ModuleInit ==
    /\ _initialized = FALSE
    /\ _state = None
    /\ states = <<>>
    /\ parsers = None
    /\ config_application_id = None
    /\ config_commands \in PersistedMaps
    /\ slash_commands = <<>>
    /\ inits = <<>>
    /\ teardowns = <<>>

\* the module after a lone initialize(bot) over the persisted map has
\* returned
ModuleInitialized(map) ==
    LET cached == CacheCommands(1, <<InteractionState(BotApplicationId)>>,
                                <<>>, map, KeyOrder)
    IN  /\ _initialized = TRUE
        /\ _state = Some(1)
        /\ states = cached.states
        /\ parsers = Some(1)
        /\ config_application_id = Some(BotApplicationId)
        /\ config_commands = map
        /\ slash_commands = cached.slash_commands
        /\ inits = <<>>
        /\ teardowns = <<>>

RegistryIdle ==
    /\ ops = <<>>
    /\ lookups = <<>>

ModuleNext ==
    \/ \E arg \in {None, Some(BotApplicationId)} : initialize(arg)
    \/ \E i \in 1..MaxInits : initialize_application_id(i)
    \/ \E i \in 1..MaxInits, r \in {"error", "data"} :
           initialize_application_info(i, r)
    \/ \E i \in 1..MaxInits : initialize_set_application_id(i)
    \/ \E i \in 1..MaxInits, r \in {"error", "data"} :
           initialize_cache_commands(i, r)
    \/ teardown
    \/ gateway_event
    \/ gateway_wait

\* ============================================================== the registry
\* SlashCommand.register / edit / delete and the lookups of the command
\* cache, on an initialized module.  The calls are coroutines and may
\* overlap; each suspends in its HTTP request and, where it has one, in its
\* `async with config.commands()` block.
\* ------------------------------------------------------------------ bounds
\* register / edit / delete calls made
MaxOps == 2

\* ------------------------------------------------------------ the platform
\* the command as the platform answers it to a register or edit request
PlatformCommand(id, application_id, name, description, options) ==
    [ id |-> id, application_id |-> application_id, name |-> name,
      description |-> description, options |-> options ]

\* SlashCommand._parse_response_data
_parse_response_data(c, data) ==
    [c EXCEPT
        !.id = IF data.id # None THEN data.id ELSE @,
        !.application_id =
            IF data.application_id # None THEN data.application_id ELSE @,
        !.name = IF data.name # "" THEN data.name ELSE @,
        !.description = IF data.description # "" THEN data.description ELSE @,
        !.options = OptionsFromDict(data.options)]

\* SlashCommand.save_config: `commands[self.id] = self.to_dict()`
SaveConfigSkipped(commands, c) == commands
save_config(commands, c) == Put(commands, c.id, to_dict(c))

\* InteractionCommand.command:
\* `self.state.get_command(self.command_id) or UnknownCommand(id=...)`
CommandUnguarded(k, command_id) == get_command(k, command_id)
command(k, command_id) ==
    IF get_command(k, command_id) # None
    THEN get_command(k, command_id)
    ELSE Some([class |-> "UnknownCommand", id |-> command_id,
               bool |-> FALSE])

\* ------------------------------------------------------------------- calls
\* the persisted map the process started with, and the commands loaded
\* from it
RegistryMap == Put(EmptyMap, Some(1), Record(1, "ping", None, <<>>))
Loaded == 1..Cardinality(KeysOf(RegistryMap))

OpsInFlight == {o \in DOMAIN ops : ops[o].pc \notin {"returned", "raised"}}

\* what the cache and the persisted map hold for the command at index c of
\* heap, under the id it has
Holding(sts, commands, heap, c) ==
    LET cache == sts[heap[c].state].command_cache IN
    [ id        |-> heap[c].id,
      in_cache  |-> Has(cache, heap[c].id),
      cached    |-> cache[heap[c].id] = Some(c),
      in_config |-> Has(commands, heap[c].id),
      saved     |-> commands[heap[c].id] = Some(to_dict(heap[c])) ]

\* the entries under every key but k are the same in both maps
SameButFor(k, before, after) ==
    \A j \in Keys \ {k} : after[j] = before[j]

\* the record kept of a call: the command it is made on, where it is, what
\* it raised, the request it sent, the id the platform answered, whether
\* another call was in flight during it, whether it left the entries of
\* the other ids alone, and what the maps held for its command when it
\* started and when it ended
NewOp(op, heap, c, request) ==
    [ op |-> op, c |-> c, pc |-> "http", raised |-> "None",
      request |-> request, given |-> None,
      overlapped |-> OpsInFlight # {}, others |-> TRUE,
      pre  |-> Holding(states, config_commands, heap, c),
      post |-> Holding(states, config_commands, heap, c) ]

OpStarted(call) ==
    /\ Len(ops) < MaxOps
    /\ ops' = Append([o \in DOMAIN ops |->
                         IF o \in OpsInFlight
                         THEN [ops[o] EXCEPT !.overlapped = TRUE]
                         ELSE ops[o]],
                     call)

OpRaised(o) ==
    /\ ops' = [ops EXCEPT ![o].pc = "raised", ![o].raised = "HTTPException",
                          ![o].request = None,
                          ![o].post = Holding(states, config_commands,
                                              slash_commands, ops[o].c)]
    /\ UNCHANGED <<states, config_commands, slash_commands>>

\* what a step of the registry leaves alone; the record of a lookup is
\* kept until the next such step only
RegistryUnchanged ==
    /\ lookups' = <<>>
    /\ UNCHANGED <<_initialized, _state, parsers, config_application_id,
                   inits, teardowns>>
    /\ UNCHANGED <<respVars, dispVars, serVars>>

\* --------------------------------------------------------------- register
\* register(), up to `await self.http.add_slash_command(self.to_request())`,
\* on the command at index c of heap
RegisterStarted(heap, c) ==
    OpStarted(NewOp("register", heap, c, to_request(heap[c])))

\* the application constructs a SlashCommand on state() and calls its
\* register()
register_new(name) ==
    /\ _state # None
    /\ LET created == Append(slash_commands,
                             SlashCommand(_state[1], None, None, name,
                                          "description", None, <<>>))
       IN  /\ RegisterStarted(created, Len(created))
           /\ slash_commands' = created
    /\ UNCHANGED <<states, config_commands>>
    /\ RegistryUnchanged

\* register() is called on a command that exists already
register(c) ==
    /\ c \in DOMAIN slash_commands
    /\ RegisterStarted(slash_commands, c)
    /\ UNCHANGED <<states, config_commands, slash_commands>>
    /\ RegistryUnchanged

\* register(), resumed from the request: it raised, or the platform's
\* answer (the requested command under the id it was given) is parsed and
\* save_config entered
register_response(o, result, id) ==
    /\ o \in DOMAIN ops
    /\ ops[o].op = "register"
    /\ ops[o].pc = "http"
    /\ IF result = "error"
       THEN OpRaised(o)
       ELSE LET c == ops[o].c
                request == ops[o].request
                data == PlatformCommand(
                            Some(id),
                            Some(states[slash_commands[c].state]
                                     .application_id),
                            request.name, request.description,
                            request.options)
            IN  /\ slash_commands' =
                       [slash_commands EXCEPT
                           ![c] = _parse_response_data(@, data)]
                /\ ops' = [ops EXCEPT ![o].pc = "save_config",
                                      ![o].request = None,
                                      ![o].given = Some(id)]
                /\ UNCHANGED <<states, config_commands>>
    /\ RegistryUnchanged

\* register(), resumed from `await self.save_config()`: the record is
\* written, the command added to the cache, and the call returns
register_saved(o) ==
    /\ o \in DOMAIN ops
    /\ ops[o].op = "register"
    /\ ops[o].pc = "save_config"
    /\ LET c == ops[o].c
           saved == save_config(config_commands, slash_commands[c])
           cached == add_to_cache(states, slash_commands, c)
       IN  /\ config_commands' = saved
           /\ states' = cached
           /\ ops' = [ops EXCEPT
                  ![o].pc = "returned",
                  ![o].post = Holding(cached, saved, slash_commands, c)]
    /\ UNCHANGED slash_commands
    /\ RegistryUnchanged

\* ------------------------------------------------------------------- edit
\* the keyword arguments of an edit() call
EditArgs ==
    { [name |-> Some("pong"), description |-> None, options |-> None],
      [name |-> None, description |-> Some("other description"),
       options |-> Some(<<TextOption>>)] }

\* the payload edit() builds: only the arguments that are truthy
EditPayload(args) ==
    [ name        |-> IF Truthy(args.name) THEN args.name ELSE None,
      description |-> IF Truthy(args.description) THEN args.description
                      ELSE None,
      options     |-> IF Truthy(args.options)
                      THEN Some(OptionsToDict(args.options[1])) ELSE None ]

\* edit(), up to `await self.http.edit_slash_command(self.id, payload)`
edit(c, args) ==
    /\ c \in DOMAIN slash_commands
    /\ OpStarted(NewOp("edit", slash_commands, c, EditPayload(args)))
    /\ UNCHANGED <<states, config_commands, slash_commands>>
    /\ RegistryUnchanged

\* edit(), resumed from the request: it raised (as it must for a command
\* the platform never gave an id), or the platform's answer (the command
\* with the payload's fields replaced) is parsed and the call returns
edit_response(o, result) ==
    /\ o \in DOMAIN ops
    /\ ops[o].op = "edit"
    /\ ops[o].pc = "http"
    /\ slash_commands[ops[o].c].id = None => result = "error"
    /\ IF result = "error"
       THEN OpRaised(o)
       ELSE LET c == ops[o].c
                old == slash_commands[c]
                payload == ops[o].request
                data == PlatformCommand(
                            old.id, old.application_id,
                            IF payload.name # None THEN payload.name[1]
                            ELSE old.name,
                            IF payload.description # None
                            THEN payload.description[1]
                            ELSE old.description,
                            IF payload.options # None
                            THEN payload.options[1]
                            ELSE OptionsToDict(old.options))
                edited == [slash_commands EXCEPT
                              ![c] = _parse_response_data(@, data)]
            IN  /\ slash_commands' = edited
                /\ ops' = [ops EXCEPT
                       ![o].pc = "returned",
                       ![o].request = None,
                       ![o].given = old.id,
                       ![o].post = Holding(states, config_commands,
                                           edited, c)]
                /\ UNCHANGED <<states, config_commands>>
    /\ RegistryUnchanged

\* ----------------------------------------------------------------- delete
\* delete(), up to `await self.http.remove_slash_command(self.id)`: the
\* command is removed from the cache first
delete(c) ==
    /\ c \in DOMAIN slash_commands
    /\ LET removed == remove_from_cache(states, slash_commands, c)
           call == NewOp("delete", slash_commands, c, None)
           k == slash_commands[c].state
       IN  /\ states' = removed
           /\ OpStarted([call EXCEPT
                  !.others = SameButFor(slash_commands[c].id,
                                        states[k].command_cache,
                                        removed[k].command_cache)])
    /\ UNCHANGED <<config_commands, slash_commands>>
    /\ RegistryUnchanged

\* delete(), resumed from the request: it raised (as it must for a command
\* the platform never gave an id), or the config block is entered
delete_response(o, result) ==
    /\ o \in DOMAIN ops
    /\ ops[o].op = "delete"
    /\ ops[o].pc = "http"
    /\ slash_commands[ops[o].c].id = None => result = "error"
    /\ IF result = "error"
       THEN OpRaised(o)
       ELSE /\ ops' = [ops EXCEPT ![o].pc = "config"]
            /\ UNCHANGED <<states, config_commands, slash_commands>>
    /\ RegistryUnchanged

\* delete(), resumed in `async with self.state.config.commands()`:
\* `del commands[self.id]`, a missing key ignored, and the call returns
delete_config(o) ==
    /\ o \in DOMAIN ops
    /\ ops[o].op = "delete"
    /\ ops[o].pc = "config"
    /\ LET c == ops[o].c
           deleted == Del(config_commands, slash_commands[c].id)
       IN  /\ config_commands' = deleted
           /\ ops' = [ops EXCEPT
                  ![o].pc = "returned",
                  ![o].others = @ /\ SameButFor(slash_commands[c].id,
                                                config_commands, deleted),
                  ![o].post = Holding(states, deleted, slash_commands, c)]
    /\ UNCHANGED <<states, slash_commands>>
    /\ RegistryUnchanged

\* ----------------------------------------------------------------- lookups
\* state().get_command(command_id), and the `command` property of an
\* InteractionCommand with that command_id
lookup(command_id) ==
    /\ _state # None
    /\ lookups = <<>>
    /\ lookups' = << [ command_id  |-> command_id,
                       get_command |-> get_command(_state[1], command_id),
                       command     |-> command(_state[1], command_id) ] >>
    /\ UNCHANGED <<states, config_commands, slash_commands, ops>>
    /\ UNCHANGED <<_initialized, _state, parsers, config_application_id,
                   inits, teardowns>>
    /\ UNCHANGED <<respVars, dispVars, serVars>>

RegistryNext ==
    \/ \E name \in Names : register_new(name)
    \/ \E c \in 1..(Cardinality(Loaded) + MaxOps) : register(c)
    \/ \E o \in 1..MaxOps, r \in {"error", "data"}, id \in CommandIds :
           register_response(o, r, id)
    \/ \E o \in 1..MaxOps : register_saved(o)
    \/ \E c \in 1..(Cardinality(Loaded) + MaxOps), args \in EditArgs :
           edit(c, args)
    \/ \E o \in 1..MaxOps, r \in {"error", "data"} : edit_response(o, r)
    \/ \E c \in 1..(Cardinality(Loaded) + MaxOps) : delete(c)
    \/ \E o \in 1..MaxOps, r \in {"error", "data"} : delete_response(o, r)
    \/ \E o \in 1..MaxOps : delete_config(o)
    \/ \E i \in CommandIds : lookup(Some(i))

\* ============================================================ serialization
\* SlashCommand.to_dict and SlashCommand.from_dict applied in turn to a
\* command the application has constructed.  A SlashOptionType member is an
\* IntEnum member, which is the integer to_dict writes.
\*
\* ------------------------------------------------------------------ bounds
\* options of a command
MaxCommandOptions == 2
\* options nested in a sub-command
MaxNested == 2

SUB_COMMAND_GROUP == 2
SlashOptionChoices ==
    << [name |-> "Red", value |-> "red"], [name |-> "Blue", value |-> "blue"] >>
SlashOption(type, name, required, choices, options) ==
    [ type |-> type, name |-> name, description |-> "some text",
      required |-> required, choices |-> choices, options |-> options ]
\* options without nested options: optional, required, and with choices
PlainOptions ==
    { SlashOption(STRING_TYPE, "text", FALSE, <<>>, <<>>),
      SlashOption(STRING_TYPE, "text", TRUE, <<>>, <<>>),
      SlashOption(STRING_TYPE, "colour", FALSE, SlashOptionChoices, <<>>) }
\* sub-commands with plain options, and a group holding a sub-command
SubCommands ==
    { SlashOption(SUB_COMMAND, "sub", FALSE, <<>>, os) :
      os \in UNION { [1..n -> PlainOptions] : n \in 1..MaxNested } }
SubCommandGroup ==
    SlashOption(SUB_COMMAND_GROUP, "group", FALSE, <<>>,
                << SlashOption(SUB_COMMAND, "sub", FALSE, <<>>,
                       << SlashOption(STRING_TYPE, "colour", TRUE,
                                      SlashOptionChoices, <<>>) >>) >>)
SlashOptions == PlainOptions \cup SubCommands \cup {SubCommandGroup}
\* the commands an application constructs: global and not yet registered,
\* and registered in a guild
SlashCommands ==
    { SlashCommand(1, k[1], k[2], "ping", "description", k[3], os) :
      k \in { <<None, None, None>>,
              <<Some(2), Some(BotApplicationId), Some(1)>> },
      os \in UNION { [1..n -> SlashOptions] : n \in 0..MaxCommandOptions } }

\* --------------------------------------------------------------- actions
\* `data = c.to_dict()`
serialize ==
    /\ serialized.pc = "constructed"
    /\ serialized' = [serialized EXCEPT !.pc = "to_dict",
                                        !.data = Some(to_dict(serialized.c))]
    /\ UNCHANGED <<respVars, dispVars, modVars, regVars>>

\* `SlashCommand.from_dict(state, data)`
deserialize ==
    /\ serialized.pc = "to_dict"
    /\ serialized' =
           [serialized EXCEPT !.pc = "from_dict",
               !.back = Some(from_dict(serialized.c.state,
                                       serialized.data[1]))]
    /\ UNCHANGED <<respVars, dispVars, modVars, regVars>>

\* no command is being serialized
SerialIdle ==
    serialized = [pc |-> "idle", c |-> None, data |-> None, back |-> None]

SerialNext ==
    \/ serialize
    \/ deserialize

\* ---------------------------------------------------------- specifications
\* one Response of either class and the calls made on it
InitResponse ==
    /\ ResponseInit
    /\ DispatchInit
    /\ ModuleInitialized(EmptyMap)
    /\ RegistryIdle
    /\ SerialIdle
SpecResponse == InitResponse /\ [][ResponseNext]_vars

\* the same, with the event loop running every detached delete task whose
\* sleep is over
SpecResponseLive ==
    /\ InitResponse
    /\ [][ResponseNext]_vars
    /\ WF_vars(\E i \in 1..MaxCalls, r \in TransportResults : delete_task(i, r))

\* the dispatcher of an initialized module and the raw events delivered to
\* it (no call is made on the objects it emits)
InitDispatch ==
    /\ ResponseInit
    /\ variant = "InteractionCommand"
    /\ DispatchInit
    /\ ModuleInitialized(Put(EmptyMap, Some(1), Record(1, "ping", None, <<>>)))
    /\ RegistryIdle
    /\ SerialIdle
SpecDispatch == InitDispatch /\ [][DispatchNext]_vars

\* the module from import on: initialize and teardown calls, and the raw
\* events the host receives meanwhile
InitModule ==
    /\ ResponseInit
    /\ variant = "InteractionCommand"
    /\ DispatchInit
    /\ ModuleInit
    /\ RegistryIdle
    /\ SerialIdle
SpecModule == InitModule /\ [][ModuleNext]_vars

\* the command registry of an initialized module: the application creates
\* commands, registers, edits and deletes them, and looks ids up
InitRegistry ==
    /\ ResponseInit
    /\ variant = "InteractionCommand"
    /\ DispatchInit
    /\ ModuleInitialized(RegistryMap)
    /\ RegistryIdle
    /\ SerialIdle
SpecRegistry == InitRegistry /\ [][RegistryNext]_vars

\* a command of an initialized module is written out and read back
InitSerial ==
    /\ ResponseInit
    /\ variant = "InteractionCommand"
    /\ DispatchInit
    /\ ModuleInitialized(EmptyMap)
    /\ RegistryIdle
    /\ \E c \in SlashCommands :
           serialized = [pc |-> "constructed", c |-> c,
                         data |-> None, back |-> None]
SpecSerial == InitSerial /\ [][SerialNext]_vars

\* ------------------------------------------------- properties of a Response
\* the requests call i handed to the transport from its own coroutine
ByCall(i) == SelectSeq(requests, LAMBDA r : r.by = i /\ ~r.task)
\* the requests made by the calls themselves, without the delayed deletes
ByCalls == SelectSeq(requests, LAMBDA r : ~r.task)

\* an initial acknowledgment: POST .../callback with the {type, data} envelope
IsAck(r) ==
    r.req.method = "POST" /\ r.req.url = CallbackUrl /\ r.req.type # None
\* a follow-up message: POST /webhooks/{app}/{token} with the bare payload
IsFollowup(r) ==
    r.req.method = "POST" /\ r.req.url = FollowupUrl /\ r.req.type = None
\* an edit of the original message: PATCH .../messages/@original, bare payload
IsEditOriginal(r) ==
    r.req.method = "PATCH" /\ r.req.url = OriginalUrl /\ r.req.type = None

\* no call started while another was suspended in its request
NonOverlapping == \A i \in DOMAIN calls : calls[i].during = {}
\* call i did not run alone: it started during another call, or another
\* call started during it
Overlapped(i) ==
    \/ calls[i].during # {}
    \/ \E j \in DOMAIN calls : i \in calls[j].during
NoCallRaised == \A i \in DOMAIN calls : calls[i].status # "raised"

\* C1: in a run of non-overlapping calls whose requests all succeed, the
\* first request handed to the transport is the initial acknowledgment
\* (POST .../callback with the type envelope) and no later request is.
C1_OnlyFirstRequestIsAck ==
    (NonOverlapping /\ NoCallRaised) =>
        \A k \in DOMAIN requests : IsAck(requests[k]) <=> k = 1

C1_Witness ==
    /\ Len(calls) = 2
    /\ NonOverlapping
    /\ \A i \in DOMAIN calls : calls[i].status = "returned"
    /\ calls[1].op = "send"
    /\ calls[1].timer = "deleted"
    /\ calls[2].op = "defer"
    /\ Len(requests) = 3

\* C2 as claimed: a send() that starts with sent already true makes exactly
\* one request and that request is PATCH .../messages/@original.
C2_SendAfterAckEditsOriginal ==
    \A i \in DOMAIN calls :
        (calls[i].op = "send" /\ calls[i].pre.sent) =>
            /\ Len(ByCall(i)) = 1
            /\ IsEditOriginal(ByCall(i)[1])

\* C2 as amended: a send() that starts with sent already true makes exactly
\* one request, the follow-up POST /webhooks/{app}/{token} with the bare
\* payload (no type envelope); so defer();send() and send();send(), run one
\* after the other, make one initial-ack request and then one follow-up
\* request, in that order.
C2_SendAfterAckFollowsUp ==
    /\ \A i \in DOMAIN calls :
           (calls[i].op = "send" /\ calls[i].pre.sent) =>
               /\ Len(ByCall(i)) = 1
               /\ IsFollowup(ByCall(i)[1])
    /\ ( /\ Len(calls) >= 2
         /\ calls[2].during = {}
         /\ calls[1].op \in {"defer", "send"}
         /\ calls[1].status = "returned"
         /\ calls[2].op = "send" ) =>
            /\ IsAck(ByCalls[1])
            /\ IsFollowup(ByCalls[2])
            /\ ByCalls[1].by = 1
            /\ ByCalls[2].by = 2
            /\ \A k \in DOMAIN ByCalls :
                   ByCalls[k].by \in {1, 2} => k \in {1, 2}

C2_Witness ==
    /\ Len(calls) = 2
    /\ NonOverlapping
    /\ calls[1].op = "defer"
    /\ calls[1].status = "returned"
    /\ calls[2].op = "send"
    /\ calls[2].status = "returned"
    /\ Len(requests) = 2

\* C3: when a send() starts while an earlier send() is still suspended in
\* its request, and every other earlier call is also still suspended or has
\* raised, the second send reads sent = False too, and both sends make an
\* initial-ack request: the log then holds two initial acknowledgments.
C3_OverlappingSendsBothAck ==
    \A i, j \in DOMAIN calls :
        ( /\ calls[i].op = "send"
          /\ calls[j].op = "send"
          /\ i \in calls[j].during
          /\ ~calls[i].pre.sent
          /\ \A k \in 1..(j - 1) :
                 k \in calls[j].during \/ calls[k].status = "raised" ) =>
            /\ ~calls[j].pre.sent
            /\ calls[i].initial
            /\ calls[j].initial
            /\ IsAck(ByCall(i)[1])
            /\ IsAck(ByCall(j)[1])
            /\ Cardinality({k \in DOMAIN requests : IsAck(requests[k])}) >= 2

C3_Witness ==
    /\ Len(calls) = 2
    /\ calls[1].op = "send"
    /\ calls[2].op = "send"
    /\ calls[2].during = {1}
    /\ IsAck(requests[1])
    /\ IsAck(requests[2])
    /\ requests[1].by = 1
    /\ requests[2].by = 2

\* C4: a call whose transport request raised has raised to its caller: it
\* never ends as a normal return.
C4_TransportErrorPropagates ==
    \A i \in DOMAIN calls :
        /\ calls[i].transport = "error" =>
               calls[i].status = "raised" /\ calls[i].result = "HTTPException"
        /\ calls[i].status = "returned" =>
               calls[i].transport \in {"empty", "data"}

C4_Witness ==
    /\ Len(calls) = 2
    /\ calls[1].op = "send"
    /\ calls[2].op = "send"
    /\ calls[2].during = {1}
    /\ calls[1].status = "returned"
    /\ calls[2].transport = "error"
    /\ calls[2].status = "raised"

\* C5: a send() that starts on a fresh Response makes exactly one request,
\* the initial acknowledgment with type channel_message_with_source carrying
\* the content; once it has returned, sent and completed are true, and
\* deferred is still false unless another call overlapped it.
C5_FreshSend ==
    \A i \in DOMAIN calls :
        (calls[i].op = "send" /\ calls[i].pre = Fresh) =>
            /\ Len(ByCall(i)) = 1
            /\ IsAck(ByCall(i)[1])
            /\ ByCall(i)[1].req.type = Some(channel_message_with_source)
            /\ Truthy(calls[i].content) =>
                   ByCall(i)[1].req.content = calls[i].content
            /\ calls[i].status = "returned" =>
                   /\ calls[i].post.sent
                   /\ calls[i].post.completed
                   /\ ~Overlapped(i) => ~calls[i].post.deferred
                   /\ (~Overlapped(i) /\ i = Len(calls)) =>
                          sent /\ completed /\ ~deferred

C5_Witness ==
    /\ Len(calls) = 1
    /\ calls[1].op = "send"
    /\ calls[1].content = Some("hi")
    /\ calls[1].status = "returned"
    /\ Len(requests) = 1
    /\ sent /\ completed /\ ~deferred

\* C6: a defer() or defer_update() that starts on a fresh Response makes
\* exactly one request, the initial acknowledgment with its own deferred
\* type and no content; once it has returned, sent and deferred are true,
\* and completed is still false unless another call overlapped it.
C6_FreshDefer ==
    \A i \in DOMAIN calls :
        (calls[i].op \in {"defer", "defer_update"} /\ calls[i].pre = Fresh) =>
            /\ Len(ByCall(i)) = 1
            /\ IsAck(ByCall(i)[1])
            /\ ByCall(i)[1].req.type =
                   IF calls[i].op = "defer"
                   THEN Some(deferred_channel_message_with_source)
                   ELSE Some(deferred_update_message)
            /\ ByCall(i)[1].req.content = None
            /\ calls[i].status = "returned" =>
                   /\ calls[i].post.sent
                   /\ calls[i].post.deferred
                   /\ ~Overlapped(i) => ~calls[i].post.completed
                   /\ (~Overlapped(i) /\ i = Len(calls)) =>
                          sent /\ deferred /\ ~completed

C6_Witness ==
    /\ variant = "InteractionButton"
    /\ Len(calls) = 2
    /\ calls[1].op = "defer_update"
    /\ calls[1].status = "raised"
    /\ calls[2].op = "defer_update"
    /\ calls[2].pre = Fresh
    /\ calls[2].status = "returned"
    /\ sent /\ deferred /\ ~completed

\* C7 as claimed: a defer() that starts with sent already true makes exactly
\* one request, an edit (a PATCH of a message) and not an initial
\* acknowledgment, and sent stays true.
C7_DeferAfterAckEdits ==
    \A i \in DOMAIN calls :
        (calls[i].op = "defer" /\ calls[i].pre.sent) =>
            /\ Len(ByCall(i)) = 1
            /\ ~IsAck(ByCall(i)[1])
            /\ ByCall(i)[1].req.method = "PATCH"
            /\ ByCall(i)[1].req.url \in {OriginalUrl, MessageUrl}
            /\ calls[i].post.sent
            /\ sent

\* C7 as amended: a defer() that starts with sent already true makes exactly
\* one request, the follow-up POST /webhooks/{app}/{token} with a bare
\* payload and not an initial acknowledgment, and sent stays true.
C7_DeferAfterAckFollowsUp ==
    \A i \in DOMAIN calls :
        (calls[i].op = "defer" /\ calls[i].pre.sent) =>
            /\ Len(ByCall(i)) = 1
            /\ ~IsAck(ByCall(i)[1])
            /\ IsFollowup(ByCall(i)[1])
            /\ calls[i].post.sent
            /\ sent

C7_Witness ==
    /\ Len(calls) = 2
    /\ calls[1].op = "defer"
    /\ calls[1].status = "returned"
    /\ calls[2].op = "defer"
    /\ calls[2].pre.sent
    /\ calls[2].status = "returned"
    /\ Len(requests) = 2
    /\ sent

\* C8: update() branches on sent like send(): started with sent false it
\* makes one request, the initial acknowledgment with type update_message,
\* and once returned sent and completed are true; started with sent true
\* it makes one request, PATCH .../messages/@original, which is no
\* callback request, and once returned completed is true.
C8_UpdateBranches ==
    \A i \in DOMAIN calls :
        calls[i].op = "update" =>
            /\ Len(ByCall(i)) = 1
            /\ ~calls[i].pre.sent =>
                   /\ IsAck(ByCall(i)[1])
                   /\ ByCall(i)[1].req.type = Some(update_message)
                   /\ calls[i].status = "returned" =>
                          calls[i].post.sent /\ calls[i].post.completed
            /\ calls[i].pre.sent =>
                   /\ IsEditOriginal(ByCall(i)[1])
                   /\ ByCall(i)[1].req.url # CallbackUrl
                   /\ calls[i].status = "returned" =>
                          calls[i].post.sent /\ calls[i].post.completed

C8_Witness ==
    /\ Len(calls) = 2
    /\ NonOverlapping
    /\ calls[1].op = "defer_update"
    /\ calls[1].status = "returned"
    /\ calls[2].op = "update"
    /\ calls[2].status = "returned"
    /\ IsAck(requests[1])
    /\ IsEditOriginal(requests[2])
    /\ sent /\ deferred /\ completed

\* --------------------------------------------- properties of the dispatcher
\* A raw event with every field the dispatcher consumes: type, id, version,
\* token, the author (member in a guild, user otherwise), data with the
\* command's name and id or the button's custom_id and component_type (and
\* the message the button is on), and options that each have a
\* SlashOptionType, a name and a value.
WellFormed(p) ==
    /\ "type" \in p.keys
    /\ IF p.type = ButtonInteractionType
       THEN ButtonKeys(p.guild_id) \subseteq p.keys
       ELSE CommandKeys(p.guild_id) \subseteq p.keys
    /\ \A k \in DOMAIN p.options :
           /\ p.options[k].type \in SUB_COMMAND..ROLE
           /\ p.options[k].named
           /\ p.options[k].valued

Parsed == parsing.state = "parsed"

C10_ParserNeverRaises ==
    Parsed => parsing.raised = "None"

\* the handler chosen for the raw event raised while it constructed the
\* typed object
ConstructionFails(p) ==
    /\ "type" \in p.keys
    /\ IF p.type = ButtonInteractionType
       THEN InteractionButtonInit(p) # "None"
       ELSE InteractionCommandInit(p) # "None"

\* C11: when constructing the typed object for a raw event raises, the
\* parser returns normally, having logged the exception, emitted no event
\* and left the command cache as it was; and a complete raw event that
\* comes after logged failures is still dispatched as one typed event.
C11_FailedConstructionDropped ==
    Parsed =>
        /\ ConstructionFails(parsing.data) =>
               /\ parsing.raised = "None"
               /\ parsing.caught # "None"
               /\ parsing.events = <<>>
               /\ dispatched = parsing.before
               /\ logged = parsing.logs + 1
               /\ states[parsers[1]].command_cache = parsing.cache
        /\ (WellFormed(parsing.data) /\ parsing.logs > 0) =>
               /\ Len(parsing.events) = 1
               /\ dispatched = Append(parsing.before, parsing.events[1].name)
               /\ logged = parsing.logs

C11_Witness ==
    /\ Parsed
    /\ parsing.data.type = SlashInteractionType
    /\ parsing.data.keys = CommandKeys(parsing.data.guild_id) \ {"data.id"}
    /\ parsing.caught = "KeyError"
    /\ parsing.before = <<"red_slash_interaction">>
    /\ dispatched = <<"red_slash_interaction">>
    /\ KeysOf(parsing.cache) = {Some(1)}
    /\ delivered = 2

\* ------------------------------------------------ properties of the module
\* an initialize call starts in this step
InitializeStarts == Len(inits') = Len(inits) + 1
\* an initialize call has returned its InteractionState
SomeInitializeReturned == \E i \in DOMAIN inits : inits[i].pc = "returned"

\* C12: an initialize call that starts after an earlier one has returned
\* raises the already-initialized error in that very step, and the step
\* changes nothing: state(), the parser table, every command cache and the
\* persisted config are as before.
C12_SecondInitializeRaises ==
    [][ (InitializeStarts /\ SomeInitializeReturned) =>
            /\ inits'[Len(inits')].pc = "raised"
            /\ inits'[Len(inits')].raised = "RuntimeError"
            /\ UNCHANGED <<_initialized, _state, states, parsers,
                           config_application_id, config_commands,
                           slash_commands>> ]_vars

C12_Witness ==
    /\ Len(inits) = 2
    /\ inits[1].pc = "returned"
    /\ inits[2].pc = "raised"
    /\ inits[2].raised = "RuntimeError"
    /\ inits[2].pre.is_initialized
    /\ _state = Some(1)
    /\ parsers = Some(1)
    /\ KeysOf(states[1].command_cache) = {Some(1), Some(2)}

\* C13: when every initialize call starts while all the earlier ones are
\* still in flight, at most one InteractionState is constructed and
\* installed as the parser, and every other call that has ended raised the
\* already-initialized error.
C13_AtMostOneInstance ==
    (\A i \in DOMAIN inits : inits[i].overlapping) =>
        /\ Len(states) <= 1
        /\ Cardinality({i \in DOMAIN inits : inits[i].instance # None}) <= 1
        /\ \A i \in DOMAIN inits :
               (~InFlight(inits[i]) /\ inits[i].instance = None) =>
                   inits[i].raised \in {"RuntimeError", "HTTPException"}

\* C14: once a teardown of the initialized module has returned, the parser
\* table has no INTERACTION_CREATE entry and no typed event is dispatched
\* any more.
C14_TeardownRemovesParser ==
    \A t \in DOMAIN teardowns :
        (teardowns[t].is_initialized /\ teardowns[t].raised = "None") =>
            /\ parsers = None
            /\ Len(dispatched) = teardowns[t].events

\* C19: once an initialize call has returned, the command cache of its
\* InteractionState has a key exactly where the persisted command map has
\* one, and the SlashCommand under a key belongs to that instance and
\* carries the id (the key itself), name, description, guild_id and options
\* of the record under that key.
C19_CacheRebuiltFromConfig ==
    \A i \in DOMAIN inits :
        inits[i].pc = "returned" =>
            LET cache == states[inits[i].instance[1]].command_cache IN
            \A k \in Keys :
                /\ Has(cache, k) <=> Has(config_commands, k)
                /\ Has(cache, k) =>
                       LET c == slash_commands[cache[k][1]]
                           d == config_commands[k][1]
                       IN  /\ c.state = inits[i].instance[1]
                           /\ c.id = k
                           /\ d.id = k
                           /\ c.name = d.name
                           /\ c.description = d.description
                           /\ c.guild_id = d.guild_id
                           /\ OptionsToDict(c.options) = d.options

C19_Witness ==
    /\ Len(inits) = 1
    /\ inits[1].pc = "returned"
    /\ _initialized
    /\ KeysOf(config_commands) = {Some(1), Some(2)}
    /\ KeysOf(states[1].command_cache) = {Some(1), Some(2)}
    /\ slash_commands[states[1].command_cache[Some(2)][1]].name = "pong"
    /\ slash_commands[states[1].command_cache[Some(2)][1]].options =
           <<TextOption>>

\* ---------------------------------------------- properties of the registry
\* call o has returned and no other register/edit/delete call was in flight
\* at any time during it
ReturnedAlone(o) == ops[o].pc = "returned" /\ ~ops[o].overlapped
\* the platform has answered a register() call made on command c
Registered(c) ==
    \E o \in DOMAIN ops :
        /\ ops[o].op = "register"
        /\ ops[o].c = c
        /\ ops[o].pc \in {"save_config", "returned"}
\* the cache state() shows
CurrentCache == states[_state[1]].command_cache
\* the placeholder for a command id that is not cached
Sentinel(command_id) ==
    [class |-> "UnknownCommand", id |-> command_id, bool |-> FALSE]

\* C15: when a delete() of a registered command has returned, with no other
\* registry call running during it, the command's id is a key of neither the
\* command cache nor the persisted command map, and the call has left the
\* entries under every other id in both as they were.
C15_DeleteRemovesBoth ==
    \A o \in DOMAIN ops :
        (ops[o].op = "delete" /\ ReturnedAlone(o)) =>
            /\ ops[o].pre.id # None
            /\ ops[o].post.id = ops[o].pre.id
            /\ ~ops[o].post.in_cache
            /\ ~ops[o].post.in_config
            /\ ops[o].others

C15_Witness ==
    /\ Len(ops) = 2
    /\ ops[1].op = "register"
    /\ ops[1].pc = "returned"
    /\ ops[1].given = Some(2)
    /\ ops[2].op = "delete"
    /\ ops[2].c = 1
    /\ ReturnedAlone(2)
    /\ ops[2].pre.cached
    /\ ops[2].pre.saved
    /\ KeysOf(CurrentCache) = {Some(2)}
    /\ KeysOf(config_commands) = {Some(2)}

\* C16 as claimed: get_command(id) returns the unknown-command placeholder
\* carrying the id when the id is not in the cache, and the cached
\* SlashCommand when it is.
C16_GetCommandNeverNull ==
    \A l \in DOMAIN lookups :
        /\ ~Has(CurrentCache, lookups[l].command_id) =>
               lookups[l].get_command = Some(Sentinel(lookups[l].command_id))
        /\ Has(CurrentCache, lookups[l].command_id) =>
               lookups[l].get_command = CurrentCache[lookups[l].command_id]

\* C16 as amended: for an id that is not in the cache get_command(id)
\* returns None, and it is the `command` property of an InteractionCommand
\* with that command_id that gives the falsy placeholder carrying the id;
\* for an id in the cache both give the cached SlashCommand.
C16_CommandPropertyNeverNull ==
    \A l \in DOMAIN lookups :
        /\ lookups[l].command # None
        /\ ~Has(CurrentCache, lookups[l].command_id) =>
               /\ lookups[l].get_command = None
               /\ lookups[l].command = Some(Sentinel(lookups[l].command_id))
               /\ ~lookups[l].command[1].bool
        /\ Has(CurrentCache, lookups[l].command_id) =>
               /\ lookups[l].get_command = CurrentCache[lookups[l].command_id]
               /\ lookups[l].command = CurrentCache[lookups[l].command_id]

C16_Witness ==
    /\ Len(ops) = 1
    /\ ops[1].op = "delete"
    /\ ops[1].pc = "returned"
    /\ ops[1].pre.id = Some(1)
    /\ lookups # <<>>
    /\ lookups[1].command_id = Some(1)
    /\ lookups[1].get_command = None
    /\ lookups[1].command = Some(Sentinel(Some(1)))

\* C17: a command the application created has id None and is the value of
\* no cache entry, and nothing is persisted under None, as long as the
\* platform has answered no register() of it; and when a register() has
\* returned, with no other registry call running during it, the command's
\* id is the one the platform gave, the cache holds the command under that
\* id and the persisted map holds its to_dict() under that id.
C17_IdOnlyAfterRegister ==
    /\ \A c \in DOMAIN slash_commands \ Loaded :
           ~Registered(c) =>
               /\ slash_commands[c].id = None
               /\ \A k \in Keys : CurrentCache[k] # Some(c)
               /\ ~Has(config_commands, None)
    /\ \A o \in DOMAIN ops :
           (ops[o].op = "register" /\ ReturnedAlone(o)) =>
               /\ ops[o].given # None
               /\ ops[o].post.id = ops[o].given
               /\ ops[o].post.cached
               /\ ops[o].post.saved

C17_Witness ==
    /\ Len(ops) = 2
    /\ Len(slash_commands) = 3
    /\ ops[1].op = "register"
    /\ ops[1].c = 2
    /\ ops[1].pc = "raised"
    /\ slash_commands[2].id = None
    /\ ops[2].op = "register"
    /\ ops[2].c = 3
    /\ ReturnedAlone(2)
    /\ ops[2].pre.id = None
    /\ ops[2].given = Some(2)
    /\ slash_commands[3].id = Some(2)
    /\ CurrentCache[Some(2)] = Some(3)
    /\ config_commands[Some(2)] = Some(to_dict(slash_commands[3]))

\* C18: when an edit() of a command whose record was persisted has
\* returned, with no other registry call running during it, the persisted
\* record under the command's id is the command's to_dict().
C18_EditPersisted ==
    \A o \in DOMAIN ops :
        (ops[o].op = "edit" /\ ReturnedAlone(o) /\ ops[o].pre.saved) =>
            ops[o].post.saved


\* ------------------------------------------ properties of option resolution
\* the parser emitted an InteractionCommand for the payload it was given
CommandEmitted ==
    /\ Parsed
    /\ Len(parsing.events) = 1
    /\ parsing.events[1].class = "InteractionCommand"

\* option k of the payload is a CHANNEL, USER or ROLE option whose id is in
\* the payload's resolved bundle
Resolvable(p, k) ==
    /\ p.options[k].type \in {CHANNEL, USER, ROLE}
    /\ p.options[k].resolved

\* the context in which the handler of option k has an object to set: a
\* direct message or a guild the bot has cached, and for a ROLE a guild
HasObject(p, k) ==
    /\ p.guild_id # None => guild(p.guild_id) # None
    /\ p.options[k].type = ROLE => p.guild_id # None

\* C20 as stated: in a guild or in a direct message, each CHANNEL, USER or
\* ROLE option of an emitted command interaction whose id is in the resolved
\* bundle has the resolved object as its value, not the raw id.
C20_ResolvedEverywhere ==
    CommandEmitted =>
        \A k \in DOMAIN parsing.data.options :
            Resolvable(parsing.data, k) =>
                parsing.events[1].options[k].value = "resolved"

\* C20: each CHANNEL or USER option of an emitted command interaction whose
\* id is in the resolved bundle has the resolved object as its value in a
\* direct message and in a guild the bot has cached, and each such ROLE
\* option in a guild the bot has cached; a ROLE option in a direct message
\* and every option of a guild the bot has not cached keep the raw id.
C20_ResolvedWhereAnObjectExists ==
    CommandEmitted =>
        \A k \in DOMAIN parsing.data.options :
            Resolvable(parsing.data, k) =>
                parsing.events[1].options[k].value =
                    IF HasObject(parsing.data, k) THEN "resolved" ELSE "raw"

C20_Witness ==
    /\ CommandEmitted
    /\ parsing.data.guild_id = None
    /\ \E k \in DOMAIN parsing.data.options :
           /\ Resolvable(parsing.data, k)
           /\ parsing.data.options[k].type = USER
           /\ parsing.events[1].options[k].value = "resolved"

\* the handler of option k of the payload raises: its id is not in the
\* resolved bundle, or the payload's guild is not one the bot has cached
ResolutionFails(p, k) ==
    /\ p.options[k].type \in {CHANNEL, USER, ROLE}
    /\ HandlerRaises(p.options[k], p.guild_id) # "None"

\* C21: when the handler of an option of a well-formed command payload
\* fails, the parser still returns normally and emits the interaction event,
\* whose options have one entry per payload option in payload order; the
\* failed option has its raw value and every other CHANNEL, USER or ROLE
\* option that has an object to resolve to is resolved.
C21_BestEffortResolution ==
    ( /\ Parsed
      /\ WellFormed(parsing.data)
      /\ parsing.data.type # ButtonInteractionType
      /\ \E k \in DOMAIN parsing.data.options :
             ResolutionFails(parsing.data, k) ) =>
        /\ parsing.raised = "None"
        /\ parsing.caught = "None"
        /\ Len(parsing.events) = 1
        /\ parsing.events[1].class = "InteractionCommand"
        /\ dispatched = Append(parsing.before, "red_slash_interaction")
        /\ DOMAIN parsing.events[1].options = DOMAIN parsing.data.options
        /\ \A k \in DOMAIN parsing.data.options :
               /\ parsing.events[1].options[k].type =
                      parsing.data.options[k].type
               /\ ResolutionFails(parsing.data, k) =>
                      parsing.events[1].options[k].value = "raw"
               /\ ( /\ Resolvable(parsing.data, k)
                    /\ HasObject(parsing.data, k) ) =>
                      parsing.events[1].options[k].value = "resolved"

C21_Witness ==
    /\ Parsed
    /\ WellFormed(parsing.data)
    /\ parsing.data.guild_id = None
    /\ Len(parsing.data.options) = 2
    /\ ResolutionFails(parsing.data, 1)
    /\ parsing.data.options[2].type = CHANNEL
    /\ Len(parsing.events) = 1
    /\ parsing.events[1].options[1].value = "raw"
    /\ parsing.events[1].options[2].value = "resolved"

\* ------------------------------------------- properties of serialization
\* C22: SlashCommand.from_dict(c.to_dict()) has the name, the description,
\* the guild_id and the option sequence of c: type, name, description,
\* required, choices and nested options, in order.
C22_RoundTrip ==
    serialized.pc = "from_dict" =>
        /\ serialized.back[1].name = serialized.c.name
        /\ serialized.back[1].description = serialized.c.description
        /\ serialized.back[1].guild_id = serialized.c.guild_id
        /\ serialized.back[1].options = serialized.c.options

C22_Witness ==
    /\ serialized.pc = "from_dict"
    /\ serialized.c.guild_id = None
    /\ Len(serialized.c.options) = 2
    /\ serialized.c.options[1] = SubCommandGroup
    /\ serialized.c.options[2] \in SubCommands
    /\ Len(serialized.c.options[2].options) = 2
    /\ serialized.c.options[2].options[1] # serialized.c.options[2].options[2]
    /\ serialized.data[1].options[2].options[1][1].options = None
    /\ serialized.back[1].options = serialized.c.options

\* --------------------------------------------- properties of delete_after
\* call i is a send(..., delete_after=d) that has returned
SentWithDeleteAfter(i) ==
    /\ i \in DOMAIN calls
    /\ calls[i].op = "send"
    /\ calls[i].delete_after # None
    /\ calls[i].status = "returned"

\* the detached task of call i has handed its delete request to the
\* transport
DeleteRequested(i) ==
    \E k \in DOMAIN requests :
        /\ requests[k].by = i
        /\ requests[k].task
        /\ requests[k].req = delete_message

\* C23: every send(..., delete_after=d) that returns is eventually followed
\* by a delete request for its message, made by a detached task, whatever
\* the flags were when send was called and whatever is called afterwards.
C23_DeleteAfterAlwaysDeletes ==
    \A i \in 1..MaxCalls : SentWithDeleteAfter(i) ~> DeleteRequested(i)

\* send(..., delete_after=d) returned a message: the detached delete follows
C23_DeleteAfterOfAMessage ==
    \A i \in 1..MaxCalls :
        (SentWithDeleteAfter(i) /\ calls[i].result = "message")
            ~> DeleteRequested(i)

\* the flags and what every call did or is doing
Outcomes == [k \in DOMAIN calls |-> <<calls[k].status, calls[k].result>>]

\* a call has raised only if its own transport request raised
OnlyOwnFailureRaises ==
    \A i \in DOMAIN calls :
        calls[i].status = "raised" => calls[i].transport = "error"

\* C24: a delayed delete that fails leaves sent, deferred and completed and
\* the outcome of every call (the send that scheduled it included) as they
\* were, and a call only ever raises when its own transport request raised.
C24_DeleteFailureIsolated ==
    [][ /\ (\E i \in DOMAIN calls :
               /\ calls[i].timer = "sleeping"
               /\ calls'[i].timer = "swallowed")
           => /\ Flags' = Flags
              /\ Outcomes' = Outcomes
        /\ OnlyOwnFailureRaises' ]_vars

C24_Witness ==
    /\ Len(calls) = 2
    /\ calls[1].op = "send"
    /\ calls[1].status = "returned"
    /\ calls[1].timer = "swallowed"
    /\ calls[1].post = Flags
    /\ calls[2].status = "returned"
    /\ calls[2].during = {}
    /\ requests[2].task

\* ------------------------------------------ properties of the lifecycle flags
\* sent is true after every send that returned
SentAfterSend ==
    \A i \in DOMAIN calls :
        (calls[i].op = "send" /\ calls[i].status = "returned") =>
            /\ calls[i].post.sent
            /\ sent

\* C25: no step sets sent, deferred or completed back to false, and after
\* every send that returned sent is true, after a first send as after a
\* second.
C25_FlagsOnlyMoveForward ==
    [][ /\ sent => sent'
        /\ deferred => deferred'
        /\ completed => completed'
        /\ SentAfterSend' ]_vars

C25_Witness ==
    /\ Len(calls) = 2
    /\ calls[1].op = "send" /\ calls[1].status = "returned"
    /\ calls[2].op = "send" /\ calls[2].status = "returned"
    /\ ~calls[1].pre.sent
    /\ calls[1].post.sent
    /\ calls[2].pre = calls[1].post
    /\ calls[2].post.sent /\ calls[2].post.completed
    /\ sent

\* C26: in every state of a Response, overlapping calls included, completed
\* implies sent and deferred implies sent.
C26_AcknowledgedFirst ==
    /\ completed => sent
    /\ deferred => sent

C26_Witness ==
    /\ Len(calls) = 2
    /\ calls[2].during = {1}
    /\ calls[1].initial /\ calls[2].initial
    /\ calls[1].status = "returned" /\ calls[2].status = "returned"
    /\ sent /\ deferred /\ completed

\* while every call so far has raised the Response is fresh, and a call
\* that found it fresh is an initial one whose request is the acknowledgment
FreshAfterFailures ==
    /\ (\A i \in DOMAIN calls : calls[i].status = "raised") => Flags = Fresh
    /\ \A i \in DOMAIN calls :
           calls[i].pre = Fresh =>
               /\ calls[i].initial
               /\ IsAck(ByCall(i)[1])

\* C27: a call whose transport request raises changes none of sent,
\* deferred and completed; while every call so far has raised the Response
\* is fresh, and a call that finds it fresh takes the initial path: its
\* request is the acknowledgment.
C27_FailedCallChangesNothing ==
    [][ /\ (\E i \in DOMAIN calls :
               /\ calls[i].status = "awaiting"
               /\ calls'[i].status = "raised")
           => Flags' = Flags
        /\ FreshAfterFailures' ]_vars

C27_Witness ==
    /\ Len(calls) = 2
    /\ calls[1].status = "raised"
    /\ calls[1].initial
    /\ calls[2].during = {}
    /\ calls[2].pre = Fresh
    /\ calls[2].initial
    /\ IsAck(ByCall(2)[1])
    /\ calls[2].status = "returned"
    /\ sent

\* ------------------------------------- properties of teardown and failure
\* a teardown call is made in this step
TeardownRuns == Len(teardowns') = Len(teardowns) + 1
\* an initialize call has returned, teardown has been called and no
\* initialize call is suspended
TornDownQuiet ==
    /\ SomeInitializeReturned
    /\ teardowns # <<>>
    /\ InitsInFlight = {}

\* once an initialize call has returned, is_initialized() is true
StaysInitialized == SomeInitializeReturned => _initialized

\* C28: teardown changes nothing but the parser registration; once an
\* initialize call has returned is_initialized() stays true, teardown or
\* not; every initialize call that starts after a teardown that followed a
\* returned initialize raises the already-initialized error and changes
\* nothing; and with no initialize call suspended, state() stays the
\* instance it was at the teardown.
C28_TeardownOnlyUnregisters ==
    [][ /\ TeardownRuns =>
               UNCHANGED <<_initialized, _state, states,
                           config_application_id, config_commands,
                           slash_commands>>
        /\ StaysInitialized'
        /\ (InitializeStarts /\ SomeInitializeReturned /\ teardowns # <<>>) =>
               /\ inits'[Len(inits')].pc = "raised"
               /\ inits'[Len(inits')].raised = "RuntimeError"
               /\ UNCHANGED <<_initialized, _state, states, parsers,
                              config_application_id, config_commands,
                              slash_commands>>
        /\ TornDownQuiet => (_state' = _state /\ TornDownQuiet') ]_vars

C28_Witness ==
    /\ Len(inits) = 2
    /\ inits[1].pc = "returned"
    /\ Len(teardowns) = 1
    /\ teardowns[1].raised = "None"
    /\ teardowns[1].is_initialized
    /\ inits[2].pc = "raised"
    /\ inits[2].raised = "RuntimeError"
    /\ inits[2].pre.parsers = None
    /\ inits[2].pre.is_initialized
    /\ _initialized
    /\ _state = Some(1)
    /\ parsers = None

\* C29: an initialize call made alone that fails part-way leaves the module
\* as it found it: is_initialized() is false, state() returns what it did
\* before the call, and the parser table is as before the call.
C29_FailedInitializeLeavesNothing ==
    ( /\ Len(inits) = 1
      /\ teardowns = <<>>
      /\ inits[1].pc = "raised" ) =>
        /\ ~_initialized
        /\ _state = inits[1].pre.state
        /\ parsers = inits[1].pre.parsers

\* C30: once no register, edit or delete call is in flight, and none of
\* them overlapped another, each command-cache entry k -> c has a non-null
\* key and c.id = k.
C30_CacheKeysAreIds ==
    ( /\ OpsInFlight = {}
      /\ \A o \in DOMAIN ops : ~ops[o].overlapped ) =>
        \A st \in DOMAIN states :
            \A k \in KeysOf(states[st].command_cache) :
                /\ k # None
                /\ slash_commands[states[st].command_cache[k][1]].id = k

\* ------------------------------------------- properties of a failed delete
\* C31: when the platform request of a delete() raises, with no other
\* registry call running during it, the command cache and the persisted
\* command map hold for the command exactly what they held before the call,
\* and a command that was in both is still in both.
C31_DeleteAllOrNothing ==
    \A o \in DOMAIN ops :
        ( /\ ops[o].op = "delete"
          /\ ops[o].pc = "raised"
          /\ ~ops[o].overlapped ) =>
            /\ ops[o].post = ops[o].pre
            /\ (ops[o].pre.cached /\ ops[o].pre.saved) =>
                   /\ Has(states[slash_commands[ops[o].c].state].command_cache,
                          ops[o].pre.id)
                   /\ Has(config_commands, ops[o].pre.id)

====
